---- MODULE Spec2Model ----
(***************************************************************************)
(* Model of extract_audio_features.py: one invocation of the command-line  *)
(* program is a straight-line pipeline (argument checks, librosa.load,     *)
(* rms, spectral_centroid, onset_detect, frames_to_time, min-max           *)
(* normalisation, assembly of the feature dictionary, open + json.dump).   *)
(*                                                                         *)
(* The decoded waveform is represented block-wise: the buffer has `len`    *)
(* samples, and each run of RmsHop consecutive samples is either silent    *)
(* (0) or a full-scale tone of pitch p (1..MaxPitch).  Frame features are  *)
(* computed from the samples each centred frame covers.  Real numbers are  *)
(* exact fractions [n, d]; d = 0 encodes the IEEE non-finite results of a  *)
(* division by zero (0/0 = NaN, x/0 = Infinity).                           *)
(***************************************************************************)
EXTENDS Integers, Sequences, FiniteSets, TLC

\* ---------------------------------------------------------------- bounds
MaxBlocks == 3      \* content-enumerated buffers span at most this many hop blocks
MaxPitch  == 2      \* distinct tone pitches a block may carry
MaxLen    == 2200   \* longest buffer of the frame-count specification
MaxRuns   == 2      \* invocations of the program on the same arguments
RmsScale  == 1000   \* RMS amplitudes are kept in units of 1/RmsScale

\* ------------------------------------------------------ program constants
LoadSR         == 22050   \* librosa.load default sample rate
RmsFrameLength == 2048    \* rms(frame_length=2048, ...)
RmsHop         == 512     \* rms(..., hop_length=512)
CentroidNFft   == 2048    \* spectral_centroid default n_fft
CentroidHop    == 512     \* spectral_centroid default hop_length
OnsetNFft      == 2048    \* onset_detect default n_fft
OnsetHop       == 512     \* onset_detect default hop_length
TimesHop       == 512     \* frames_to_time(..., hop_length=512)

VARIABLES
    argc,              \* len(sys.argv)
    path_exists,       \* os.path.exists(audio_path)
    decodable,         \* whether librosa.load can decode the file
    audio,             \* the waveform the file decodes to
    peak_pick,         \* frame indices the onset peak picker selects for it
    pc,                \* position of the invocation
    y, sr,
    rms, spectral_centroid, onset_frames, times,
    rms_normalized, centroid_normalized,
    features,
    out_file,          \* the file at output_path
    console,           \* messages printed so far
    exit_code,         \* -1 while running, else the process exit status
    run,               \* number of the current invocation
    prev               \* exit status of the previous invocation, and the
                       \* output file as the current invocation found it

env   == <<argc, path_exists, decodable, audio, peak_pick>>
local == <<y, sr, rms, spectral_centroid, onset_frames, times,
           rms_normalized, centroid_normalized, features>>
vars  == <<argc, path_exists, decodable, audio, peak_pick, pc, y, sr, rms,
           spectral_centroid, onset_frames, times, rms_normalized,
           centroid_normalized, features, out_file, console, exit_code,
           run, prev>>

\* ------------------------------------------------------------ arithmetic
Min2(a, b) == IF a <= b THEN a ELSE b
Max2(a, b) == IF a >= b THEN a ELSE b

RECURSIVE Gcd(_, _)
Gcd(a, b) == IF b = 0 THEN a ELSE Gcd(b, a % b)

NaN == [n |-> 0, d |-> 0]
Inf == [n |-> 1, d |-> 0]

\* a / b for a >= 0, b >= 0, as numpy true division returns it
Divide(a, b) ==
    IF b = 0 THEN (IF a = 0 THEN NaN ELSE Inf)
    ELSE LET g == Gcd(a, b) IN [n |-> a \div g, d |-> b \div g]

IsFinite(q) == q.d # 0
FracLeq(p, q) == p.n * q.d <= q.n * p.d
FracLt(p, q)  == p.n * q.d <  q.n * p.d
Zero == [n |-> 0, d |-> 1]
One  == [n |-> 1, d |-> 1]

RECURSIVE IsqrtIn(_, _, _)
IsqrtIn(x, lo, hi) ==
    IF lo >= hi THEN lo
    ELSE LET mid == (lo + hi + 1) \div 2
         IN  IF mid * mid <= x THEN IsqrtIn(x, mid, hi)
                               ELSE IsqrtIn(x, lo, mid - 1)

Isqrt(x) == IsqrtIn(x, 0, Min2(x, 46340))

RECURSIVE SeqMin(_)
SeqMin(s) == IF Len(s) = 1 THEN s[1] ELSE Min2(s[1], SeqMin(Tail(s)))
RECURSIVE SeqMax(_)
SeqMax(s) == IF Len(s) = 1 THEN s[1] ELSE Max2(s[1], SeqMax(Tail(s)))

RECURSIVE SortedSeq(_)
SortedSeq(S) ==
    IF S = {} THEN <<>>
    ELSE LET m == CHOOSE x \in S : \A z \in S : x <= z
         IN  <<m>> \o SortedSeq(S \ {m})

\* ------------------------------------------------------------- waveform
BlockLen == RmsHop
NBlocks(len) == (len + BlockLen - 1) \div BlockLen

\* samples of block b (0-based) lying in the half-open sample range [lo, hi)
Overlap(buf, lo, hi, b) ==
    Max2(0, Min2(Min2(hi, (b + 1) * BlockLen), buf.len) - Max2(Max2(lo, b * BlockLen), 0))

RECURSIVE SumOver(_, _, _, _, _)
\* sum over blocks b..last of w[block value] * samples in [lo, hi)
SumOver(buf, lo, hi, b, w) ==
    IF b >= Len(buf.blocks) THEN 0
    ELSE w[buf.blocks[b + 1]] * Overlap(buf, lo, hi, b) + SumOver(buf, lo, hi, b + 1, w)

\* per block value: sample^2, spectral magnitude, magnitude * frequency (Hz)
Square == [p \in 0..MaxPitch |-> IF p = 0 THEN 0 ELSE 1]
Mag    == [p \in 0..MaxPitch |-> IF p = 0 THEN 0 ELSE 1]
MagHz  == [p \in 0..MaxPitch |-> Mag[p] * p * 440]

IsSilent(buf) == \A b \in 1..Len(buf.blocks) : buf.blocks[b] = 0

\* ------------------------------------------------------ librosa framing
\* centred framing: the signal is padded by half a frame on both sides
CenteredFrameCount(len, frame_length, hop) ==
    1 + (len + 2 * (frame_length \div 2) - frame_length) \div hop

RmsFrameCountUncentered(len) ==
    IF len < RmsFrameLength THEN 1 ELSE 1 + (len - RmsFrameLength) \div RmsHop
RmsFrameCount(len) == CenteredFrameCount(len, RmsFrameLength, RmsHop)

StftFrameCountUncentered(len) ==
    IF len < CentroidNFft THEN 1 ELSE 1 + (len - CentroidNFft) \div CentroidHop
StftFrameCountDoubleHop(len) == 1 + len \div (2 * CentroidHop)
StftFrameCount(len) == CenteredFrameCount(len, CentroidNFft, CentroidHop)

\* sample range of centred frame i (0-based); samples outside the buffer
\* are the zero padding
FrameLo(i, frame_length, hop) == i * hop - frame_length \div 2
FrameHi(i, frame_length, hop) == i * hop - frame_length \div 2 + frame_length

\* sqrt(mean(sample^2)) of frame i, in units of 1/RmsScale
RmsAt(buf, i) ==
    LET ss == SumOver(buf, FrameLo(i, RmsFrameLength, RmsHop),
                      FrameHi(i, RmsFrameLength, RmsHop), 0, Square)
    IN  Isqrt((ss * RmsScale * RmsScale) \div RmsFrameLength)

\* sum(magnitude * freq) / sum(magnitude) of frame i in Hz; 0 for a frame
\* of zero total magnitude
CentroidAt(buf, i) ==
    LET lo  == FrameLo(i, CentroidNFft, CentroidHop)
        hi  == FrameHi(i, CentroidNFft, CentroidHop)
        tot == SumOver(buf, lo, hi, 0, Mag)
    IN  IF tot = 0 THEN 0 ELSE SumOver(buf, lo, hi, 0, MagHz) \div tot

FramesToTimeOffByOne(f, rate, hop) == Divide((f + 1) * hop, rate)
FramesToTime(f, rate, hop) == Divide(f * hop, rate)

OnsetTimeFrameEnd(f, rate) == Divide((f + 1) * OnsetHop, rate)
OnsetTime(f, rate) == FramesToTime(f, rate, OnsetHop)

\* (x - min(x)) / (max(x) - min(x)), element-wise
MinMax(x) ==
    LET lo == SeqMin(x)
        hi == SeqMax(x)
    IN  [i \in 1..Len(x) |-> Divide(x[i] - lo, hi - lo)]

GetDuration(buf, rate) == Divide(buf.len, rate)

\* json.dump emits the dictionary's items in insertion order
Serialize(f) ==
    << <<"duration", f.duration>>,
       <<"sample_rate", f.sample_rate>>,
       <<"rms", f.rms>>,
       <<"spectral_centroid", f.spectral_centroid>>,
       <<"onsets", f.onsets>> >>

\* ------------------------------------------------------------ the state
NoBuffer   == [len |-> 0, blocks |-> <<>>]
NoFeatures == [duration |-> Zero, sample_rate |-> 0,
               rms |-> [values |-> <<>>, times |-> <<>>],
               spectral_centroid |-> [values |-> <<>>, times |-> <<>>],
               onsets |-> <<>>]
AbsentFile == [exists |-> FALSE, content |-> <<>>]
StaleFile  == [exists |-> TRUE,  content |-> << <<"stale", Zero>> >>]

Buffers(lens) ==
    UNION { { [len |-> l, blocks |-> b] : b \in [1..NBlocks(l) -> 0..MaxPitch] } : l \in lens }

UniformBuffers(lens) ==
    { [len |-> l, blocks |-> [i \in 1..NBlocks(l) |-> p]] : l \in lens, p \in 0..1 }

\* buffer lengths just below and at every hop boundary up to MaxBlocks hops
ContentLens ==
    { k * BlockLen + r : k \in 0..(MaxBlocks - 1), r \in {BlockLen - 1, BlockLen} }

\* the peak picker returns no onset for an all-zero onset envelope, and
\* otherwise some set of frame indices of the envelope
PeakSets(buf) ==
    IF IsSilent(buf) THEN { {} }
    ELSE SUBSET (0..(CenteredFrameCount(buf.len, OnsetNFft, OnsetHop) - 1))

StartLocals ==
    /\ pc = "main"
    /\ y = NoBuffer /\ sr = 0
    /\ rms = <<>> /\ spectral_centroid = <<>> /\ onset_frames = <<>> /\ times = <<>>
    /\ rms_normalized = <<>> /\ centroid_normalized = <<>>
    /\ features = NoFeatures
    /\ console = <<>>
    /\ exit_code = -1

\* first and last frame of the envelope, as a stand-in for the picker on
\* the long uniform buffers
EdgePeakSets(buf) ==
    IF IsSilent(buf) THEN { {} }
    ELSE { {0, CenteredFrameCount(buf.len, OnsetNFft, OnsetHop) - 1} }

InitEnv(inputs) ==
    \/ /\ argc \in {2, 4}
       /\ path_exists = FALSE /\ decodable = FALSE
       /\ audio = NoBuffer /\ peak_pick = {}
    \/ /\ argc = 3
       /\ path_exists \in BOOLEAN /\ decodable = FALSE
       /\ audio = NoBuffer /\ peak_pick = {}
    \/ /\ argc = 3
       /\ path_exists = TRUE /\ decodable = TRUE
       /\ \E inp \in inputs : audio = inp[1] /\ peak_pick = inp[2]

InitRest ==
    /\ out_file \in {AbsentFile, StaleFile}
    /\ StartLocals
    /\ run = 1
    /\ prev = [code |-> -1, file |-> out_file]

ContentInputs == UNION { { <<b, ps>> : ps \in PeakSets(b) } : b \in Buffers(ContentLens) }

FrameInputs == UNION { { <<b, ps>> : ps \in EdgePeakSets(b) } : b \in UniformBuffers(1..MaxLen) }

Init       == InitEnv(ContentInputs) /\ InitRest
InitFrames == InitEnv(FrameInputs) /\ InitRest

\* ------------------------------------------------------------- actions
AbortStatusZero(msgs) ==
    /\ pc' = "done"
    /\ exit_code' = 0
    /\ console' = console \o msgs
\* sys.exit(1), or an uncaught exception: the interpreter exits with status 1
Abort(msgs) ==
    /\ pc' = "done"
    /\ exit_code' = 1
    /\ console' = console \o msgs

\* __main__: if len(sys.argv) != 3: print usage; sys.exit(1)
CheckArgs ==
    /\ pc = "main"
    /\ IF argc # 3
       THEN Abort(<<"usage">>)
       ELSE pc' = "check_exists" /\ UNCHANGED <<exit_code, console>>
    /\ UNCHANGED <<env, local, out_file, run, prev>>

\* __main__: if not os.path.exists(audio_path): print error; sys.exit(1)
CheckExists ==
    /\ pc = "check_exists"
    /\ IF ~path_exists
       THEN Abort(<<"not_found">>)
       ELSE pc' = "load" /\ UNCHANGED <<exit_code, console>>
    /\ UNCHANGED <<env, local, out_file, run, prev>>

\* y, sr = librosa.load(audio_path); a decoding failure raises
Load ==
    /\ pc = "load"
    /\ IF ~decodable
       THEN Abort(<<>>) /\ UNCHANGED <<y, sr>>
       ELSE /\ y' = audio /\ sr' = LoadSR
            /\ pc' = "rms" /\ UNCHANGED <<exit_code, console>>
    /\ UNCHANGED <<env, rms, spectral_centroid, onset_frames, times,
                   rms_normalized, centroid_normalized, features,
                   out_file, run, prev>>

\* rms = librosa.feature.rms(y=y, frame_length=2048, hop_length=512)[0]
ComputeRms ==
    /\ pc = "rms"
    /\ rms' = [i \in 1..RmsFrameCount(y.len) |-> RmsAt(y, i - 1)]
    /\ pc' = "centroid"
    /\ UNCHANGED <<env, y, sr, spectral_centroid, onset_frames, times,
                   rms_normalized, centroid_normalized, features,
                   out_file, console, exit_code, run, prev>>

\* spectral_centroid = librosa.feature.spectral_centroid(y=y, sr=sr)[0]
ComputeCentroid ==
    /\ pc = "centroid"
    /\ spectral_centroid' = [i \in 1..StftFrameCount(y.len) |-> CentroidAt(y, i - 1)]
    /\ pc' = "onset"
    /\ UNCHANGED <<env, y, sr, rms, onset_frames, times,
                   rms_normalized, centroid_normalized, features,
                   out_file, console, exit_code, run, prev>>

\* onset_frames = librosa.onset.onset_detect(y=y, sr=sr, units='time')
DetectOnsets ==
    /\ pc = "onset"
    /\ onset_frames' = LET fr == SortedSeq(peak_pick)
                       IN  [i \in 1..Len(fr) |-> OnsetTime(fr[i], sr)]
    /\ pc' = "times"
    /\ UNCHANGED <<env, y, sr, rms, spectral_centroid, times,
                   rms_normalized, centroid_normalized, features,
                   out_file, console, exit_code, run, prev>>

\* times = librosa.frames_to_time(np.arange(len(rms)), sr=sr, hop_length=512)
ComputeTimes ==
    /\ pc = "times"
    /\ times' = [i \in 1..Len(rms) |-> FramesToTime(i - 1, sr, TimesHop)]
    /\ pc' = "normalize"
    /\ UNCHANGED <<env, y, sr, rms, spectral_centroid, onset_frames,
                   rms_normalized, centroid_normalized, features,
                   out_file, console, exit_code, run, prev>>

\* rms_normalized = (rms - min) / (max - min), and the same for the centroid
Normalize ==
    /\ pc = "normalize"
    /\ rms_normalized' = MinMax(rms)
    /\ centroid_normalized' = MinMax(spectral_centroid)
    /\ pc' = "assemble"
    /\ UNCHANGED <<env, y, sr, rms, spectral_centroid, onset_frames, times,
                   features, out_file, console, exit_code, run, prev>>

\* features = {'duration': ..., 'sample_rate': ..., 'rms': ..., ...}
Assemble ==
    /\ pc = "assemble"
    /\ features' = [duration |-> GetDuration(y, sr),
                    sample_rate |-> sr,
                    rms |-> [values |-> rms_normalized, times |-> times],
                    spectral_centroid |-> [values |-> centroid_normalized, times |-> times],
                    onsets |-> onset_frames]
    /\ pc' = "open"
    /\ UNCHANGED <<env, y, sr, rms, spectral_centroid, onset_frames, times,
                   rms_normalized, centroid_normalized,
                   out_file, console, exit_code, run, prev>>

OpenedForAppend(f) == [exists |-> TRUE, content |-> f.content]
\* the file as open(output_path, 'w') leaves it: created or truncated
Opened(f) == [exists |-> TRUE, content |-> <<>>]

\* with open(output_path, 'w') as f: either the open raises OSError and
\* leaves the path alone, or the file is created/truncated
OpenOutput ==
    /\ pc = "open"
    /\ \/ Abort(<<>>) /\ UNCHANGED out_file
       \/ /\ out_file' = Opened(out_file)
          /\ pc' = "dump" /\ UNCHANGED <<exit_code, console>>
    /\ UNCHANGED <<env, local, run, prev>>

\* json.dump(features, f, indent=2) writes the encoding chunk by chunk; a
\* failing write leaves the chunks already written and raises
Dump ==
    /\ pc = "dump"
    /\ \E k \in 0..Len(Serialize(features)) :
          /\ out_file' = [out_file EXCEPT
                            !.content = @ \o SubSeq(Serialize(features), 1, k)]
          /\ IF k = Len(Serialize(features))
             THEN pc' = "report" /\ UNCHANGED <<exit_code, console>>
             ELSE Abort(<<>>)
    /\ UNCHANGED <<env, local, run, prev>>

\* the closing prints; the script then ends and the status is 0
Report ==
    /\ pc = "report"
    /\ console' = console \o <<"saved">>
    /\ exit_code' = 0
    /\ pc' = "done"
    /\ UNCHANGED <<env, local, out_file, run, prev>>

\* the same command line is run again on the same files
Rerun ==
    /\ pc = "done"
    /\ run < MaxRuns
    /\ run' = run + 1
    /\ prev' = [code |-> exit_code, file |-> out_file]
    /\ pc' = "main"
    /\ y' = NoBuffer /\ sr' = 0
    /\ rms' = <<>> /\ spectral_centroid' = <<>> /\ onset_frames' = <<>> /\ times' = <<>>
    /\ rms_normalized' = <<>> /\ centroid_normalized' = <<>>
    /\ features' = NoFeatures
    /\ console' = <<>>
    /\ exit_code' = -1
    /\ UNCHANGED <<env, out_file>>

Next ==
    \/ CheckArgs
    \/ CheckExists
    \/ Load
    \/ ComputeRms
    \/ ComputeCentroid
    \/ DetectOnsets
    \/ ComputeTimes
    \/ Normalize
    \/ Assemble
    \/ OpenOutput
    \/ Dump
    \/ Report
    \/ Rerun

Spec       == Init /\ [][Next]_vars
SpecFrames == InitFrames /\ [][Next]_vars

TypeOK ==
    /\ pc \in {"main", "check_exists", "load", "rms", "centroid", "onset", "times",
               "normalize", "assemble", "open", "dump", "report", "done"}
    /\ exit_code \in {-1, 0, 1}
    /\ run \in 1..MaxRuns

\* ------------------------------------------------------------ properties
Normalized == Len(rms_normalized) > 0      \* Normalize has acted in this run
Written    == pc = "report"                \* the complete record is in the file

AllFiniteSeq(s) == \A i \in 1..Len(s) : IsFinite(s[i])
ConstantSeq(s)  == \A i \in 1..Len(s) : s[i] = s[1]
InUnit(q)       == IsFinite(q) /\ FracLeq(Zero, q) /\ FracLeq(q, One)

\* a constant raw sequence is emitted as one finite constant
FallbackApplied(raw, norm) ==
    SeqMax(raw) = SeqMin(raw) => AllFiniteSeq(norm) /\ ConstantSeq(norm)

\* C1: for the RMS and for the centroid sequence independently, a constant
\* sequence (max = min) is normalised to a sequence of one finite constant,
\* and the record written to the output holds no NaN or Infinity.
C1_ConstantFallback ==
    /\ Normalized => /\ FallbackApplied(rms, rms_normalized)
                     /\ FallbackApplied(spectral_centroid, centroid_normalized)
    /\ Written => /\ AllFiniteSeq(out_file.content[3][2].values)
                  /\ AllFiniteSeq(out_file.content[4][2].values)

\* C2: every rms value and every centroid value of the written record lies
\* in [0, 1]; only for a fully silent input is the (finite) fallback constant
\* produced instead.
C2_UnitRange ==
    Written =>
        IF IsSilent(y)
        THEN /\ AllFiniteSeq(features.rms.values) /\ ConstantSeq(features.rms.values)
             /\ AllFiniteSeq(features.spectral_centroid.values)
             /\ ConstantSeq(features.spectral_centroid.values)
        ELSE /\ \A i \in 1..Len(features.rms.values) : InUnit(features.rms.values[i])
             /\ \A i \in 1..Len(features.spectral_centroid.values) :
                    InUnit(features.spectral_centroid.values[i])

\* C3: the four sequences rms.values, rms.times, spectral_centroid.values and
\* spectral_centroid.times of the written record have the same length.
C3_SameLength ==
    Written =>
        /\ Len(features.rms.values) = Len(features.rms.times)
        /\ Len(features.spectral_centroid.values) = Len(features.spectral_centroid.times)
        /\ Len(features.rms.values) = Len(features.spectral_centroid.values)
        /\ out_file.content = Serialize(features)

C3_Witness ==
    /\ Written
    /\ Len(features.rms.values) >= 5
    /\ Len(features.spectral_centroid.values) >= 5

\* C4: the exit status is 0 exactly when the run completed (record written,
\* closing message printed), and it is 1 when the argument count is not two
\* (usage printed, whatever the path), when the input path does not exist
\* (message printed) and when the existing input cannot be decoded.
C4_ExitCodes ==
    pc = "done" =>
        /\ exit_code \in {0, 1}
        /\ exit_code = 0 <=> /\ console = <<"saved">>
                             /\ out_file = [exists |-> TRUE, content |-> Serialize(features)]
        /\ argc # 3 => exit_code = 1 /\ console = <<"usage">>
        /\ (argc = 3 /\ ~path_exists) => exit_code = 1 /\ console = <<"not_found">>
        /\ (argc = 3 /\ path_exists /\ ~decodable) => exit_code = 1

C4_Witness ==
    /\ pc = "done" /\ exit_code = 1
    /\ argc = 3 /\ path_exists /\ ~decodable

\* C5: a run that ends in a failure leaves the output path exactly as it
\* found it (never created, truncated or partially written).
C5_NoPartialOutput ==
    (pc = "done" /\ exit_code = 1) => out_file = prev.file

\* C6: the onsets of the written record are non-decreasing and each lies in
\* [0, duration], duration being buffer length / sample rate.
C6_OnsetsOrderedInRange ==
    Written =>
        /\ features.duration.n * LoadSR = y.len * features.duration.d
        /\ \A i \in 1..Len(features.onsets) :
              /\ IsFinite(features.onsets[i])
              /\ FracLeq(Zero, features.onsets[i])
              /\ FracLeq(features.onsets[i], features.duration)
              /\ i < Len(features.onsets) =>
                     FracLeq(features.onsets[i], features.onsets[i + 1])

C6_Witness ==
    /\ Written
    /\ Len(features.onsets) >= 2
    /\ features.onsets[Len(features.onsets)] = features.duration

\* C7: a second successful run on the same input and output path leaves the
\* output file exactly as the first successful run left it, and the file of a
\* successful run is the serialisation of the record computed from the input,
\* whatever the output path held before.
C7_Idempotent ==
    (pc = "done" /\ exit_code = 0) =>
        /\ out_file = [exists |-> TRUE, content |-> Serialize(features)]
        /\ features.duration = GetDuration(audio, LoadSR)
        /\ (run > 1 /\ prev.code = 0) => out_file = prev.file

C7_Witness ==
    /\ pc = "done" /\ exit_code = 0
    /\ run = 2 /\ prev.code = 0
    /\ Len(features.onsets) > 0

\* C8 as stated: for a buffer of L >= 2048 samples the RMS sequence, the
\* centroid sequence and the time axis have floor((L - 2048) / 512) + 1 frames.
C8_FrameCountUncentered ==
    (Len(times) > 0 /\ y.len >= 2048) =>
        /\ Len(rms) = (y.len - 2048) \div 512 + 1
        /\ Len(spectral_centroid) = (y.len - 2048) \div 512 + 1
        /\ Len(times) = (y.len - 2048) \div 512 + 1

\* C8 amended: for a buffer of L >= 2048 samples the RMS sequence, the
\* centroid sequence and the time axis have floor(L / 512) + 1 frames
\* (centred frames, the buffer padded by half a window on both sides).
C8_FrameCountCentered ==
    (Len(times) > 0 /\ y.len >= 2048) =>
        /\ Len(rms) = y.len \div 512 + 1
        /\ Len(spectral_centroid) = y.len \div 512 + 1
        /\ Len(times) = y.len \div 512 + 1

C8_Witness ==
    /\ Len(times) > 0
    /\ y.len >= 2048
    /\ Len(rms) = 5 /\ Len(spectral_centroid) = 5 /\ Len(times) = 5

\* C9 as stated: a non-empty buffer shorter than one window yields RMS and
\* centroid sequences of length exactly 1, and no error.
C9_ShortBufferOneFrame ==
    (pc = "onset" /\ y.len > 0 /\ y.len < 2048) =>
        /\ Len(rms) = 1
        /\ Len(spectral_centroid) = 1
        /\ exit_code = -1

\* C9 amended: a non-empty buffer shorter than one window yields RMS and
\* centroid sequences of the same length floor(L / 512) + 1, which is 1 only
\* for L < 512 and at most 4, and no error.
C9_ShortBufferFrames ==
    (pc = "onset" /\ y.len > 0 /\ y.len < 2048) =>
        /\ Len(rms) = y.len \div 512 + 1
        /\ Len(spectral_centroid) = Len(rms)
        /\ Len(rms) \in 1..4
        /\ Len(rms) = 1 <=> y.len < 512
        /\ exit_code = -1

C9_Witness ==
    /\ pc = "onset"
    /\ y.len = 2047
    /\ Len(rms) = 4 /\ Len(spectral_centroid) = 4

\* C10: rms.times and spectral_centroid.times of the written record are the
\* same sequence, whose entry for frame i (from 0) is i * 512 / sample_rate,
\* one entry per frame; it starts at 0 and is strictly increasing.
C10_SharedTimeAxis ==
    Written =>
        /\ features.rms.times = features.spectral_centroid.times
        /\ Len(features.rms.times) = Len(rms)
        /\ features.rms.times[1] = Zero
        /\ \A i \in 1..Len(features.rms.times) :
              /\ IsFinite(features.rms.times[i])
              /\ features.rms.times[i].n * features.sample_rate
                     = (i - 1) * 512 * features.rms.times[i].d
              /\ i > 1 => FracLt(features.rms.times[i - 1], features.rms.times[i])

C10_Witness ==
    /\ Written
    /\ Len(features.rms.times) >= 5
    /\ features.spectral_centroid.times[5] = Divide(2048, 22050)

====
